---- MODULE Spec2Model ----
(***************************************************************************)
(* Chain parameter resolution and validation pipeline of the Cosmos        *)
(* validator monitor: the startup hook (bot.py), the discovery engine      *)
(* (utils/chain_discovery.py), the parameter cache (db_manager.py) and the *)
(* two validation passes (utils/config_validator.py).                      *)
(***************************************************************************)
EXTENDS Integers, Sequences, FiniteSets, TLC

(***************************************************************************)
(* Python values.  A value is a record [t, s, n]: t is the type tag, s the *)
(* characters of a str (one-character strings), n the number of an int.    *)
(* NoKey is the model's mark for "the dict has no such key".               *)
(***************************************************************************)
PyNone == [t |-> "none", s |-> <<>>, n |-> 0]

NoKey == [t |-> "nokey", s |-> <<>>, n |-> 0]

PyStr(chars) == [t |-> "str", s |-> chars, n |-> 0]

PyInt(k) == [t |-> "int", s |-> <<>>, n |-> k]

\* Python truthiness of a value: None, "" and 0 are falsy.
Truthy(v) == \/ (v.t = "str" /\ v.s # <<>>)
             \/ (v.t = "int" /\ v.n # 0)

\* dict.get(key): None when the key is absent.
DictGet(v) == IF v = NoKey THEN PyNone ELSE v

\* `param not in d or d[param] is None`
IsMissing(v) == v = NoKey \/ v = PyNone

(***************************************************************************)
(* Strings, as sequences of characters.                                    *)
(***************************************************************************)
LowerLetters ==
  <<"a","b","c","d","e","f","g","h","i","j","k","l","m",
    "n","o","p","q","r","s","t","u","v","w","x","y","z">>

UpperLetters ==
  <<"A","B","C","D","E","F","G","H","I","J","K","L","M",
    "N","O","P","Q","R","S","T","U","V","W","X","Y","Z">>

IsLower(ch) == \E i \in 1..Len(LowerLetters) : LowerLetters[i] = ch

UpperChar(ch) ==
  IF IsLower(ch)
  THEN UpperLetters[CHOOSE i \in 1..Len(LowerLetters) : LowerLetters[i] = ch]
  ELSE ch

\* str.upper()
StrUpper(str) == [i \in 1..Len(str) |-> UpperChar(str[i])]

\* str.startswith(prefix)
StartsWith(str, prefix) ==
  /\ Len(str) >= Len(prefix)
  /\ SubSeq(str, 1, Len(prefix)) = prefix

\* `sub in str`
Contains(str, sub) ==
  \E i \in 1..(Len(str) - Len(sub) + 1) : SubSeq(str, i, i + Len(sub) - 1) = sub

\* str.replace(old, new): every non-overlapping occurrence, left to right.
RECURSIVE StrReplace(_, _, _)
StrReplace(str, old, new) ==
  IF Len(str) < Len(old) THEN str
  ELSE IF SubSeq(str, 1, Len(old)) = old
       THEN new \o StrReplace(SubSeq(str, Len(old) + 1, Len(str)), old, new)
       ELSE <<str[1]>> \o StrReplace(Tail(str), old, new)

VALOPER == <<"v","a","l","o","p","e","r">>

VALCONS == <<"v","a","l","c","o","n","s">>

(***************************************************************************)
(* utils/chain_discovery.py: the pure extractors.                          *)
(***************************************************************************)
\* The prefixes derive_token_symbol tries, in order.
SymbolPrefixes == <<"u", "a", "n", "m">>

\* The for loop of derive_token_symbol from prefix number i on: the first
\* prefix that the symbol starts with (and that leaves something) is cut, and
\* the loop breaks.
RECURSIVE StripPrefixFrom(_, _)
StripPrefixFrom(symbol, i) ==
  IF i > Len(SymbolPrefixes) THEN symbol
  ELSE IF StartsWith(symbol, <<SymbolPrefixes[i]>>) /\ Len(symbol) > 1
       THEN Tail(symbol)
       ELSE StripPrefixFrom(symbol, i + 1)

\* derive_token_symbol(base_denom), for a str argument (characters in,
\* characters out).
derive_token_symbol(base_denom) == StrUpper(StripPrefixFrom(base_denom, 1))

\* The length of the longest leading run of lowercase letters.
RECURSIVE LowerRun(_)
LowerRun(str) ==
  IF str # <<>> /\ IsLower(Head(str)) THEN 1 + LowerRun(Tail(str)) ELSE 0

\* The value a call raised instead of returning.
Raised == [t |-> "raised", s |-> <<>>, n |-> 0]

\* extract_bech32_prefix(address): re.match(r'^([a-z]+)1', address); a truthy
\* address that is no str makes re.match raise TypeError.
extract_bech32_prefix(address) ==
  IF ~Truthy(address) THEN PyNone
  ELSE IF address.t # "str" THEN Raised
  ELSE LET k == LowerRun(address.s)
       IN IF k >= 1 /\ Len(address.s) > k /\ address.s[k + 1] = "1"
          THEN PyStr(SubSeq(address.s, 1, k))
          ELSE PyNone

\* str.replace(old, new, 1): the first occurrence only.
StrReplaceFirst(str, old, new) ==
  LET at == { i \in 1..(Len(str) - Len(old) + 1) : SubSeq(str, i, i + Len(old) - 1) = old }
  IN IF at = {} THEN str
     ELSE LET first == CHOOSE i \in at : \A j \in at : i <= j
          IN SubSeq(str, 1, first - 1) \o new
               \o SubSeq(str, first + Len(old), Len(str))

\* A derivation that replaces the first "valoper" only.
ExtractConsensusFirstOnly(valoper_prefix) ==
  IF ~Truthy(valoper_prefix) THEN PyNone
  ELSE IF Contains(valoper_prefix.s, VALOPER)
       THEN PyStr(StrReplaceFirst(valoper_prefix.s, VALOPER, VALCONS))
       ELSE PyNone

\* extract_consensus_prefix(valoper_prefix), given None or a str.
extract_consensus_prefix(valoper_prefix) ==
  IF ~Truthy(valoper_prefix) THEN PyNone
  ELSE IF Contains(valoper_prefix.s, VALOPER)
       THEN PyStr(StrReplace(valoper_prefix.s, VALOPER, VALCONS))
       ELSE PyNone

(***************************************************************************)
(* The REST collaborator.  A response is what one GET can come to:         *)
(*   neterr   the request raised (timeout, connection error, bad URL)      *)
(*   status   a non-2xx status: raise_for_status() raised                  *)
(*   badjson  response.json() raised                                       *)
(*   nodict   the JSON body is no object: data.get raised                  *)
(*   json     a JSON object; `bond` is params.bond_denom (NoKey when       *)
(*            params or bond_denom is not there), `count` the length of    *)
(*            validators, `addr` validators[0].operator_address            *)
(***************************************************************************)
Response(kind, bond, count, addr) ==
  [kind |-> kind, bond |-> bond, count |-> count, addr |-> addr]

FailureKinds == {"neterr", "status", "badjson", "nodict"}

\* The client only speaks http and https: for any other URL text (also the
\* text "None" that formatting a null URL gives) the request itself raises.
IsHttpUrl(url) ==
  /\ url.t = "str"
  /\ \/ StartsWith(url.s, <<"h","t","t","p",":","/","/">>)
     \/ StartsWith(url.s, <<"h","t","t","p","s",":","/","/">>)

\* fetch_base_denom: the bond_denom when it is truthy, None on every
\* failure (the whole body is inside try/except Exception).
fetch_base_denom(resp) ==
  IF resp.kind \in FailureKinds THEN PyNone
  ELSE IF Truthy(DictGet(resp.bond)) THEN resp.bond
  ELSE PyNone

\* The dict extract_prefixes_from_validators returns, or NoPrefixes for None.
NoPrefixes == [found |-> FALSE, valoper_prefix |-> PyNone, valcons_prefix |-> PyNone]

\* An extraction that still hands back the operator prefix when no
\* consensus prefix could be derived from it.
ExtractPrefixesKeepOperator(resp) ==
  IF resp.kind \in FailureKinds THEN NoPrefixes
  ELSE IF resp.count = 0 THEN NoPrefixes
  ELSE LET valoper_prefix == extract_bech32_prefix(DictGet(resp.addr))
       IN IF valoper_prefix = Raised \/ ~Truthy(valoper_prefix) THEN NoPrefixes
          ELSE [found |-> TRUE,
                valoper_prefix |-> valoper_prefix,
                valcons_prefix |-> extract_consensus_prefix(valoper_prefix)]

extract_prefixes_from_validators(resp) ==
  IF resp.kind \in FailureKinds THEN NoPrefixes
  ELSE IF resp.count = 0 THEN NoPrefixes
  ELSE LET operator_address == DictGet(resp.addr)
           valoper_prefix == extract_bech32_prefix(operator_address)
       IN IF valoper_prefix = Raised THEN NoPrefixes
          ELSE LET valcons_prefix == extract_consensus_prefix(valoper_prefix)
               IN IF Truthy(valoper_prefix) /\ Truthy(valcons_prefix)
                  THEN [found |-> TRUE,
                        valoper_prefix |-> valoper_prefix,
                        valcons_prefix |-> valcons_prefix]
                  ELSE NoPrefixes

\* The four discoverable parameters, in the order every loop names them.
Params == <<"valoper_prefix", "valcons_prefix", "base_denom", "token_symbol">>

ParamSet == {Params[k] : k \in 1..Len(Params)}

\* The dict discover_chain_params starts from.
NothingDiscovered ==
  [valoper_prefix |-> PyNone, valcons_prefix |-> PyNone,
   base_denom |-> PyNone, token_symbol |-> PyNone]

\* Step 2 of discover_chain_params raises when the truthy bond_denom is no
\* str: derive_token_symbol calls startswith on it, outside any try.
DeriveRaises(base_denom) == Truthy(base_denom) /\ base_denom.t # "str"

\* Steps 1 and 2 of discover_chain_params, given the staking response.
DiscoverDenom(disc, resp) ==
  LET base_denom == fetch_base_denom(resp)
  IN [disc EXCEPT
        !.base_denom = base_denom,
        !.token_symbol = IF Truthy(base_denom) /\ base_denom.t = "str"
                         THEN PyStr(derive_token_symbol(base_denom.s))
                         ELSE @]

\* A step 3 that takes over the operator prefix only.
DiscoverPrefixesOperatorOnly(disc, resp) ==
  LET prefixes == extract_prefixes_from_validators(resp)
  IN IF prefixes.found
     THEN [disc EXCEPT !.valoper_prefix = prefixes.valoper_prefix]
     ELSE disc

\* Step 3 of discover_chain_params, given the validators response.
DiscoverPrefixes(disc, resp) ==
  LET prefixes == extract_prefixes_from_validators(resp)
  IN IF prefixes.found
     THEN [disc EXCEPT !.valoper_prefix = prefixes.valoper_prefix,
                       !.valcons_prefix = prefixes.valcons_prefix]
     ELSE disc

\* A guard of the cache write that lets every outcome through.
AnyDiscoveredAlways(disc) == TRUE

\* any(discovered.values())
AnyDiscovered(disc) == \E p \in ParamSet : Truthy(disc[p])

\* The merge loop of merge_discovered_with_config from parameter k on.
RECURSIVE MergeFrom(_, _, _)
MergeFrom(merged, disc, k) ==
  IF k > Len(Params) THEN merged
  ELSE LET param == Params[k]
       IN IF IsMissing(merged[param]) /\ Truthy(disc[param])
          THEN MergeFrom([merged EXCEPT ![param] = disc[param]], disc, k + 1)
          ELSE MergeFrom(merged, disc, k + 1)

\* A merge that lets a discovered value replace the configured one.
RECURSIVE MergeDiscoveredFirstFrom(_, _, _)
MergeDiscoveredFirstFrom(merged, disc, k) ==
  IF k > Len(Params) THEN merged
  ELSE MergeDiscoveredFirstFrom(
         IF Truthy(disc[Params[k]])
         THEN [merged EXCEPT ![Params[k]] = disc[Params[k]]] ELSE merged,
         disc, k + 1)

MergeDiscoveredFirst(disc, manual_config) ==
  MergeDiscoveredFirstFrom(manual_config, disc, 1)

merge_discovered_with_config(disc, manual_config) ==
  MergeFrom(manual_config, disc, 1)

\* The parameters of Params, in order, that cfg lacks (absent or None).
RECURSIVE MissingFrom(_, _)
MissingFrom(cfg, k) ==
  IF k > Len(Params) THEN <<>>
  ELSE (IF IsMissing(cfg[Params[k]]) THEN <<Params[k]>> ELSE <<>>)
       \o MissingFrom(cfg, k + 1)

MissingParams(cfg) == MissingFrom(cfg, 1)

(***************************************************************************)
(* utils/config_validator.py: ConfigValidationResult and the two passes.   *)
(* A message keeps the chain it is tagged with, the kind of its text and   *)
(* the parameter names the text lists.                                     *)
(***************************************************************************)
Message(chain_name, kind, params) ==
  [chain |-> chain_name, kind |-> kind, params |-> params]

\* ConfigValidationResult.__init__, then result.total_chains = total.
NewResult(total) ==
  [errors |-> <<>>, warnings |-> <<>>, success |-> <<>>,
   total_chains |-> total, valid_chains |-> 0]

add_error(result, chain_name, message) ==
  [result EXCEPT !.errors = Append(@, Message(chain_name, message.kind, message.params))]

add_warning(result, chain_name, message) ==
  [result EXCEPT !.warnings = Append(@, Message(chain_name, message.kind, message.params))]

add_success(result, chain_name) ==
  [result EXCEPT !.success = Append(@, chain_name), !.valid_chains = @ + 1]

is_valid(result) == Len(result.errors) = 0

has_warnings(result) == Len(result.warnings) > 0

Text(kind, params) == [kind |-> kind, params |-> params]

\* The `required_params` loop of validate_chain_config.
RequiredErrors(cfg) ==
  (IF IsMissing(cfg.rest_api_url)
   THEN <<Text("missing_required", <<"rest_api_url">>)>> ELSE <<>>)
  \o (IF IsMissing(cfg.decimals)
      THEN <<Text("missing_required", <<"decimals">>)>> ELSE <<>>)

\* `url.startswith(...)` is called whenever the key is there: a value that
\* is no str (None, a number) raises AttributeError.
UrlCheckRaises(cfg) == cfg.rest_api_url # NoKey /\ cfg.rest_api_url.t # "str"

UrlErrors(cfg) ==
  IF cfg.rest_api_url # NoKey /\ ~IsHttpUrl(cfg.rest_api_url)
  THEN <<Text("invalid_rest_api_url", <<>>)>> ELSE <<>>

\* `not isinstance(decimals, int) or decimals < 0 or decimals > 18`
DecimalsErrors(cfg) ==
  IF /\ cfg.decimals # NoKey
     /\ (cfg.decimals.t # "int" \/ cfg.decimals.n < 0 \/ cfg.decimals.n > 18)
  THEN <<Text("invalid_decimals", <<>>)>> ELSE <<>>

DiscoverWarnings(cfg) ==
  IF MissingParams(cfg) # <<>>
  THEN <<Text("will_auto_discover", MissingParams(cfg))>> ELSE <<>>

\* validate_chain_config: (raised, errors, warnings); is_valid is
\* `len(errors) == 0`.
validate_chain_config(cfg) ==
  IF UrlCheckRaises(cfg)
  THEN [raised |-> TRUE, errors |-> <<>>, warnings |-> <<>>]
  ELSE [raised |-> FALSE,
        errors |-> RequiredErrors(cfg) \o UrlErrors(cfg) \o DecimalsErrors(cfg),
        warnings |-> DiscoverWarnings(cfg)]

RECURSIVE AddErrors(_, _, _)
AddErrors(result, chain_name, errors) ==
  IF errors = <<>> THEN result
  ELSE AddErrors(add_error(result, chain_name, Head(errors)), chain_name, Tail(errors))

RECURSIVE AddWarnings(_, _, _)
AddWarnings(result, chain_name, warnings) ==
  IF warnings = <<>> THEN result
  ELSE AddWarnings(add_warning(result, chain_name, Head(warnings)), chain_name, Tail(warnings))

\* An iteration that counts a chain as a success only when it has neither
\* errors nor warnings.
ValidateOneNoWarnings(result, chain_name, checked) ==
  AddWarnings(
    IF Len(checked.errors) = 0
    THEN (IF Len(checked.warnings) = 0 THEN add_success(result, chain_name) ELSE result)
    ELSE AddErrors(result, chain_name, checked.errors),
    chain_name, checked.warnings)

\* One iteration of the loop of validate_all_chains, given what
\* validate_chain_config returned.
ValidateOne(result, chain_name, checked) ==
  AddWarnings(
    IF Len(checked.errors) = 0
    THEN add_success(result, chain_name)
    ELSE AddErrors(result, chain_name, checked.errors),
    chain_name, checked.warnings)

\* An iteration that names only the first missing parameter.
PostValidateOneFirstMissing(result, chain_name, cfg) ==
  IF MissingParams(cfg) = <<>>
  THEN add_success(result, chain_name)
  ELSE add_error(result, chain_name, Text("missing_critical", <<Head(MissingParams(cfg))>>))

\* One iteration of the loop of validate_post_discovery.
PostValidateOne(result, chain_name, cfg) ==
  IF MissingParams(cfg) = <<>>
  THEN add_success(result, chain_name)
  ELSE add_error(result, chain_name, Text("missing_critical", MissingParams(cfg)))

\* A merge that adds the two counts instead of taking the later one.
MergeValidationAddCounts(stored, post) ==
  [stored EXCEPT !.errors = @ \o post.errors,
                 !.valid_chains = @ + post.valid_chains]

\* setup_hook's merge of the post-discovery result into the stored one.
MergeValidation(stored, post) ==
  [stored EXCEPT !.errors = @ \o post.errors,
                 !.valid_chains = post.valid_chains]

(***************************************************************************)
(* Inputs: the configured chains, the cache rows found at startup and the  *)
(* REST responses.                                                         *)
(***************************************************************************)
\* The keys of the configuration map, in insertion order.
ChainOrder == <<"c1", "c2">>

Chains == {ChainOrder[k] : k \in 1..Len(ChainOrder)}

\* How many times the bot is started against the same configuration file.
MaxRuns == 2

URL_A == PyStr(<<"h","t","t","p",":","/","/","a">>)

URL_B == PyStr(<<"h","t","t","p","s",":","/","/","b">>)

URL_FTP == PyStr(<<"f","t","p",":","/","/","x">>)

UATOM == PyStr(<<"u","a","t","o","m">>)

UOSMO == PyStr(<<"u","o","s","m","o">>)

Config(url, decimals, valoper, valcons, denom, symbol) ==
  [rest_api_url |-> url, decimals |-> decimals,
   valoper_prefix |-> valoper, valcons_prefix |-> valcons,
   base_denom |-> denom, token_symbol |-> symbol]

MAN_VALOPER == PyStr(<<"m","a","n","v","a","l","o","p","e","r">>)

MAN_VALCONS == PyStr(<<"m","a","n","v","a","l","c","o","n","s">>)

MAN_SYMBOL == PyStr(<<"M","A","N">>)

\* The discoverable fields as the configuration file gives them: none, all,
\* the denomination alone, all null, and a mix with an empty string.
FieldPatterns ==
  { <<NoKey, NoKey, NoKey, NoKey>>,
    <<MAN_VALOPER, MAN_VALCONS, UATOM, MAN_SYMBOL>>,
    <<NoKey, NoKey, UATOM, NoKey>>,
    <<PyNone, PyNone, PyNone, PyNone>>,
    <<PyStr(<<>>), MAN_VALCONS, PyNone, MAN_SYMBOL>> }

ConfigSet ==
  { Config(URL_A, PyInt(6), f[1], f[2], f[3], f[4]) : f \in FieldPatterns }
  \cup
  { Config(u, PyInt(6), f[1], f[2], f[3], f[4]) :
      u \in {NoKey, PyNone, URL_FTP},
      f \in { <<NoKey, NoKey, NoKey, NoKey>>,
              <<MAN_VALOPER, MAN_VALCONS, UATOM, MAN_SYMBOL>> } }
  \cup
  { Config(URL_A, d, NoKey, NoKey, NoKey, NoKey) :
      d \in {NoKey, PyNone, PyInt(19), PyStr(<<"6">>)} }

\* A row of chain_params_cache; NoRow when the table has none for the chain.
Row(valoper, valcons, denom, symbol, at, url) ==
  [valoper_prefix |-> valoper, valcons_prefix |-> valcons,
   base_denom |-> denom, token_symbol |-> symbol,
   discovered_at |-> at, rest_api_url |-> url]

NoRow == Row(PyNone, PyNone, PyNone, PyNone, -1, NoKey)

CACHE_VALOPER == PyStr(<<"o","l","d","v","a","l","o","p","e","r">>)

CACHE_VALCONS == PyStr(<<"o","l","d","v","a","l","c","o","n","s">>)

CACHE_DENOM == PyStr(<<"u","o","l","d">>)

CACHE_SYMBOL == PyStr(<<"O","L","D">>)

\* Rows an earlier start left behind: a full one for the current endpoint,
\* one with the prefixes only, and a full one for another endpoint.
RowSet ==
  { Row(CACHE_VALOPER, CACHE_VALCONS, CACHE_DENOM, CACHE_SYMBOL, 0, URL_A),
    Row(CACHE_VALOPER, CACHE_VALCONS, PyNone, PyNone, 0, URL_A),
    Row(CACHE_VALOPER, CACHE_VALCONS, CACHE_DENOM, CACHE_SYMBOL, 0, URL_B) }

StakingResponses ==
  { Response(k, NoKey, 0, NoKey) : k \in FailureKinds }
  \cup
  { Response("json", b, 0, NoKey) :
      b \in {NoKey, PyNone, PyStr(<<>>), UOSMO, PyInt(5)} }

COSMOS_ADDR ==
  PyStr(<<"c","o","s","m","o","s","v","a","l","o","p","e","r","1","a","b","c">>)

PLAIN_ADDR ==
  PyStr(<<"p","l","a","i","n","p","r","e","f","i","x","1","a","b","c">>)

NODIGIT_ADDR ==
  PyStr(<<"n","o","d","i","g","i","t","p","r","e","f","i","x">>)

ValidatorResponses ==
  { Response(k, NoKey, 0, NoKey) : k \in FailureKinds }
  \cup
  { Response("json", NoKey, 0, NoKey) }
  \cup
  { Response("json", NoKey, 1, a) :
      a \in {NoKey, PyNone, PyInt(7), COSMOS_ADDR, PLAIN_ADDR, NODIGIT_ADDR} }

\* No response yet.
NoResponse == Response("none", NoKey, 0, NoKey)

\* What a GET on the endpoint can come to.
CanAnswer(url, resp) == IsHttpUrl(url) \/ resp.kind = "neterr"

(***************************************************************************)
(* State.                                                                  *)
(***************************************************************************)
VARIABLES
  config_file,            \* what load_config reads: chain -> configuration
  supported_chains,       \* bot.supported_chains
  cache,                  \* table chain_params_cache: chain -> row
  pc,                     \* where setup_hook stands
  idx,                    \* position of the running loop in ChainOrder
  discovered,             \* the dict discover_chain_params is filling
  validation_result,      \* the structural pass's result, later merged
  post_discovery_result,  \* the completeness pass's result
  structural,             \* the structural pass's result as it returned
  io,                     \* per chain, what this start did for it
  exc,                    \* the exception that ended setup_hook
  run,                    \* number of this start
  d_url,                  \* discover_chain_params alone: its rest_api_url
  d_pc,                   \* ... where the call stands
  d_staking,              \* ... the staking-params response it got
  d_validators,           \* ... the validators response it got
  d_out,                  \* ... the dict it is filling and returns
  e_result,               \* create_validation_embed alone: its argument
  e_pc,                   \* ... where the call stands
  e_embed,                \* ... the embed it returns
  k_prefix,               \* extract_consensus_prefix alone: its argument
  k_pc,                   \* ... where the call stands
  k_out                   \* ... what it returns

pvars == <<config_file, supported_chains, cache, pc, idx, discovered,
           validation_result, post_discovery_result, structural, io, exc, run>>

dvars == <<d_url, d_pc, d_staking, d_validators, d_out>>

evars == <<e_result, e_pc, e_embed>>

kvars == <<k_prefix, k_pc, k_out>>

vars == <<pvars, dvars, evars, kvars>>

\* create_validation_embed is not being called.
EmbedOff ==
  /\ e_result = NewResult(0)
  /\ e_pc = "off"
  /\ e_embed = [title |-> "none", fields |-> <<>>]

\* extract_consensus_prefix is not being called.
ConsensusOff ==
  /\ k_prefix = PyNone
  /\ k_pc = "off"
  /\ k_out = PyNone

\* discover_chain_params is not being called on its own.
DiscoveryOff ==
  /\ d_url = NoKey
  /\ d_pc = "off"
  /\ d_staking = NoResponse
  /\ d_validators = NoResponse
  /\ d_out = NothingDiscovered

\* What a start has done for one chain: cache reads and writes, requests
\* issued, the URL discovery was called with, whether a row was reused,
\* whether a read or a write of the store failed, whether the loop body ran.
NoIo ==
  [reads |-> 0, writes |-> 0, reqs |-> 0, url |-> NoKey, hit |-> FALSE,
   rfail |-> FALSE, wfail |-> FALSE, resolved |-> FALSE]

\* A loop that walks the configuration map from its last key to its first.
CurrentFromLast == ChainOrder[Len(ChainOrder) + 1 - idx]

Current == ChainOrder[idx]

\* The chain every configuration map holds at least once: an endpoint, 6
\* decimals and nothing else.
Baseline == Config(URL_A, PyInt(6), NoKey, NoKey, NoKey, NoKey)

Init ==
  /\ config_file \in [Chains -> ConfigSet]
  /\ \E c \in Chains : config_file[c] = Baseline
  /\ supported_chains = config_file
  /\ cache \in [Chains -> RowSet \cup {NoRow}]
  /\ pc = "start"
  /\ idx = 1
  /\ discovered = NothingDiscovered
  /\ validation_result = NewResult(0)
  /\ post_discovery_result = NewResult(0)
  /\ structural = NewResult(0)
  /\ io = [c \in Chains |-> NoIo]
  /\ exc = "none"
  /\ run = 1
  /\ DiscoveryOff
  /\ EmbedOff
  /\ ConsensusOff

(***************************************************************************)
(* db_manager.py: the parameter cache.                                     *)
(***************************************************************************)
\* A read that hands the row over although it raised.
GetCachedDespiteFailure(table, chain_name, stored) == table[chain_name]

\* get_cached_chain_params: the row, or {} when there is none or the read
\* raised (stored = FALSE).
get_cached_chain_params(table, chain_name, stored) ==
  IF stored THEN table[chain_name] ELSE NoRow

\* A write that keeps the fields of the old row which the new outcome lacks.
CacheChainParamsKeepOld(table, chain_name, params, rest_api_url, now, stored) ==
  IF stored
  THEN [table EXCEPT ![chain_name] =
          Row(IF params.valoper_prefix = PyNone
              THEN table[chain_name].valoper_prefix ELSE params.valoper_prefix,
              IF params.valcons_prefix = PyNone
              THEN table[chain_name].valcons_prefix ELSE params.valcons_prefix,
              IF params.base_denom = PyNone
              THEN table[chain_name].base_denom ELSE params.base_denom,
              IF params.token_symbol = PyNone
              THEN table[chain_name].token_symbol ELSE params.token_symbol,
              now, rest_api_url)]
  ELSE table

\* cache_chain_params: INSERT OR REPLACE of the whole row; nothing when the
\* write raised (stored = FALSE).
cache_chain_params(table, chain_name, params, rest_api_url, now, stored) ==
  IF stored
  THEN [table EXCEPT ![chain_name] =
          Row(params.valoper_prefix, params.valcons_prefix,
              params.base_denom, params.token_symbol, now, rest_api_url)]
  ELSE table

\* invalidate_chain_cache: DELETE of the chain's row.
invalidate_chain_cache(table, chain_name) ==
  [table EXCEPT ![chain_name] = NoRow]

\* A staleness check that forgets the endpoint.
CacheUsableAnyUrl(cached, cfg) == cached # NoRow

\* `cached and cached.get('rest_api_url') == chain_config.get('rest_api_url')`
CacheUsable(cached, cfg) ==
  cached # NoRow /\ DictGet(cached.rest_api_url) = DictGet(cfg.rest_api_url)

\* A cache-hit branch that takes the prefixes and the denomination only.
FromCacheWithoutSymbol(cached) ==
  [valoper_prefix |-> DictGet(cached.valoper_prefix),
   valcons_prefix |-> DictGet(cached.valcons_prefix),
   base_denom |-> DictGet(cached.base_denom),
   token_symbol |-> PyNone]

\* The dict the cache-hit branch builds from the row.
FromCache(cached) ==
  [valoper_prefix |-> DictGet(cached.valoper_prefix),
   valcons_prefix |-> DictGet(cached.valcons_prefix),
   base_denom |-> DictGet(cached.base_denom),
   token_symbol |-> DictGet(cached.token_symbol)]

(***************************************************************************)
(* bot.py: setup_hook, step by step.                                       *)
(***************************************************************************)
Crash(name) ==
  /\ pc' = "crashed"
  /\ exc' = name

\* setup_hook enters validate_all_chains: a fresh result with the total.
BeginValidation ==
  /\ pc = "start"
  /\ validation_result' = NewResult(Cardinality(DOMAIN supported_chains))
  /\ pc' = "validate"
  /\ idx' = 1
  /\ UNCHANGED <<config_file, supported_chains, cache, discovered,
                 post_discovery_result, structural, io, exc, run>>
  /\ UNCHANGED <<dvars, evars, kvars>>

\* One iteration of validate_all_chains; an exception of
\* validate_chain_config leaves setup_hook.
ValidateChain ==
  /\ pc = "validate"
  /\ idx <= Len(ChainOrder)
  /\ LET checked == validate_chain_config(supported_chains[Current])
     IN IF checked.raised
        THEN /\ Crash("AttributeError")
             /\ UNCHANGED <<validation_result, idx>>
        ELSE /\ validation_result' = ValidateOne(validation_result, Current, checked)
             /\ idx' = idx + 1
             /\ UNCHANGED <<pc, exc>>
  /\ UNCHANGED <<config_file, supported_chains, cache, discovered,
                 post_discovery_result, structural, io, run>>
  /\ UNCHANGED <<dvars, evars, kvars>>

\* validate_all_chains returns; setup_hook stores the result and enters
\* enrich_config_with_discovery.
EndValidation ==
  /\ pc = "validate"
  /\ idx = Len(ChainOrder) + 1
  /\ structural' = validation_result
  /\ pc' = "enrich"
  /\ idx' = 1
  /\ UNCHANGED <<config_file, supported_chains, cache, discovered,
                 validation_result, post_discovery_result, io, exc, run>>
  /\ UNCHANGED <<dvars, evars, kvars>>

\* A loop body that looks the cache up before it checks what is missing.
EnrichSkipAfterRead ==
  /\ pc = "enrich"
  /\ idx <= Len(ChainOrder)
  /\ MissingParams(supported_chains[Current]) = <<>>
  /\ io' = [io EXCEPT ![Current].resolved = TRUE, ![Current].reads = @ + 1]
  /\ idx' = idx + 1
  /\ UNCHANGED <<config_file, supported_chains, cache, pc, discovered,
                 validation_result, post_discovery_result, structural, exc, run>>
  /\ UNCHANGED <<dvars, evars, kvars>>

\* The loop body for a chain that lacks none of the four: `continue`.
EnrichSkip ==
  /\ pc = "enrich"
  /\ idx <= Len(ChainOrder)
  /\ MissingParams(supported_chains[Current]) = <<>>
  /\ io' = [io EXCEPT ![Current].resolved = TRUE]
  /\ idx' = idx + 1
  /\ UNCHANGED <<config_file, supported_chains, cache, pc, discovered,
                 validation_result, post_discovery_result, structural, exc, run>>
  /\ UNCHANGED <<dvars, evars, kvars>>

\* The loop body up to its first await, for a chain that lacks a parameter:
\* the cache is read; a usable row is merged at once; otherwise
\* discover_chain_params is called with chain_config['rest_api_url'] (a
\* KeyError when the key is not there) and issues the staking-params request.
EnrichLookup ==
  /\ pc = "enrich"
  /\ idx <= Len(ChainOrder)
  /\ MissingParams(supported_chains[Current]) # <<>>
  /\ \E stored \in BOOLEAN :
       LET cfg == supported_chains[Current]
           cached == get_cached_chain_params(cache, Current, stored)
           read == [io[Current] EXCEPT !.reads = @ + 1, !.rfail = ~stored,
                                       !.resolved = TRUE]
       IN IF CacheUsable(cached, cfg)
          THEN /\ discovered' = FromCache(cached)
               /\ supported_chains' =
                    [supported_chains EXCEPT
                       ![Current] = merge_discovered_with_config(FromCache(cached), cfg)]
               /\ io' = [io EXCEPT ![Current] = [read EXCEPT !.hit = TRUE]]
               /\ idx' = idx + 1
               /\ UNCHANGED <<pc, exc>>
          ELSE IF cfg.rest_api_url = NoKey
          THEN /\ Crash("KeyError")
               /\ io' = [io EXCEPT ![Current] = read]
               /\ UNCHANGED <<supported_chains, discovered, idx>>
          ELSE /\ discovered' = NothingDiscovered
               /\ io' = [io EXCEPT ![Current] =
                           [read EXCEPT !.url = cfg.rest_api_url, !.reqs = @ + 1]]
               /\ pc' = "await_params"
               /\ UNCHANGED <<supported_chains, idx, exc>>
  /\ UNCHANGED <<config_file, cache, validation_result, post_discovery_result,
                 structural, run>>
  /\ UNCHANGED <<dvars, evars, kvars>>

\* The staking-params request ends: steps 1 and 2 of discover_chain_params,
\* then the validators request is issued.
StakingAnswer ==
  /\ pc = "await_params"
  /\ \E resp \in StakingResponses :
       /\ CanAnswer(io[Current].url, resp)
       /\ IF DeriveRaises(fetch_base_denom(resp))
          THEN /\ Crash("AttributeError")
               /\ UNCHANGED <<discovered, io>>
          ELSE /\ discovered' = DiscoverDenom(discovered, resp)
               /\ io' = [io EXCEPT ![Current].reqs = @ + 1]
               /\ pc' = "await_validators"
               /\ UNCHANGED exc
  /\ UNCHANGED <<config_file, supported_chains, cache, idx, validation_result,
                 post_discovery_result, structural, run>>
  /\ UNCHANGED <<dvars, evars, kvars>>

\* The validators request ends: step 3 of discover_chain_params, its return,
\* the cache write when something was discovered, and the merge.
ValidatorsAnswer ==
  /\ pc = "await_validators"
  /\ \E resp \in ValidatorResponses, stored \in BOOLEAN :
       /\ CanAnswer(io[Current].url, resp)
       /\ LET cfg == supported_chains[Current]
              found == DiscoverPrefixes(discovered, resp)
          IN /\ discovered' = found
             /\ IF AnyDiscovered(found)
                THEN /\ cache' = cache_chain_params(cache, Current, found,
                                                    cfg.rest_api_url, run, stored)
                     /\ io' = [io EXCEPT ![Current].writes = @ + 1,
                                         ![Current].wfail = ~stored]
                ELSE /\ stored
                     /\ UNCHANGED <<cache, io>>
             /\ supported_chains' =
                  [supported_chains EXCEPT
                     ![Current] = merge_discovered_with_config(found, cfg)]
  /\ idx' = idx + 1
  /\ pc' = "enrich"
  /\ UNCHANGED <<config_file, validation_result, post_discovery_result,
                 structural, exc, run>>
  /\ UNCHANGED <<dvars, evars, kvars>>

\* enrich_config_with_discovery returns; setup_hook enters
\* validate_post_discovery.
BeginPostDiscovery ==
  /\ pc = "enrich"
  /\ idx = Len(ChainOrder) + 1
  /\ post_discovery_result' = NewResult(Cardinality(DOMAIN supported_chains))
  /\ pc' = "post"
  /\ idx' = 1
  /\ UNCHANGED <<config_file, supported_chains, cache, discovered,
                 validation_result, structural, io, exc, run>>
  /\ UNCHANGED <<dvars, evars, kvars>>

\* One iteration of validate_post_discovery.
PostValidateChain ==
  /\ pc = "post"
  /\ idx <= Len(ChainOrder)
  /\ post_discovery_result' =
       PostValidateOne(post_discovery_result, Current, supported_chains[Current])
  /\ idx' = idx + 1
  /\ UNCHANGED <<config_file, supported_chains, cache, pc, discovered,
                 validation_result, structural, io, exc, run>>
  /\ UNCHANGED <<dvars, evars, kvars>>

\* validate_post_discovery returns and setup_hook merges its result into
\* the stored one.
MergeResults ==
  /\ pc = "post"
  /\ idx = Len(ChainOrder) + 1
  /\ validation_result' = MergeValidation(validation_result, post_discovery_result)
  /\ pc' = "done"
  /\ UNCHANGED <<config_file, supported_chains, cache, idx, discovered,
                 post_discovery_result, structural, io, exc, run>>
  /\ UNCHANGED <<dvars, evars, kvars>>

\* invalidate_chain_cache, called on the running bot.
Invalidate ==
  /\ pc = "done"
  /\ \E c \in Chains :
       /\ cache[c] # NoRow
       /\ cache' = invalidate_chain_cache(cache, c)
  /\ UNCHANGED <<config_file, supported_chains, pc, idx, discovered,
                 validation_result, post_discovery_result, structural, io, exc, run>>
  /\ UNCHANGED <<dvars, evars, kvars>>

\* The process is started again: __init__ loads the configuration file
\* anew; only the cache table outlives the process.
Restart ==
  /\ pc \in {"done", "crashed"}
  /\ run < MaxRuns
  /\ run' = run + 1
  /\ supported_chains' = config_file
  /\ pc' = "start"
  /\ idx' = 1
  /\ discovered' = NothingDiscovered
  /\ validation_result' = NewResult(0)
  /\ post_discovery_result' = NewResult(0)
  /\ structural' = NewResult(0)
  /\ io' = [c \in Chains |-> NoIo]
  /\ exc' = "none"
  /\ UNCHANGED <<config_file, cache>>
  /\ UNCHANGED <<dvars, evars, kvars>>

Next ==
  \/ BeginValidation
  \/ ValidateChain
  \/ EndValidation
  \/ EnrichSkip
  \/ EnrichLookup
  \/ StakingAnswer
  \/ ValidatorsAnswer
  \/ BeginPostDiscovery
  \/ PostValidateChain
  \/ MergeResults
  \/ Invalidate
  \/ Restart

Spec == Init /\ [][Next]_vars

(***************************************************************************)
(* discover_chain_params on its own: one call, with the responses it got   *)
(* kept beside the dict it returns.                                        *)
(***************************************************************************)
DOUBLE_ADDR ==
  PyStr(<<"v","a","l","o","p","e","r","v","a","l","o","p","e","r","1","x">>)

\* Validator responses for the single call: those of the pipeline, and
\* operator addresses that are empty or name "valoper" twice.
DiscoveryValidatorResponses ==
  ValidatorResponses
  \cup { Response("json", NoKey, 1, a) : a \in {PyStr(<<>>), DOUBLE_ADDR} }

InitDiscovery ==
  /\ config_file = [c \in Chains |-> Baseline]
  /\ supported_chains = config_file
  /\ cache = [c \in Chains |-> NoRow]
  /\ pc = "off"
  /\ idx = 1
  /\ discovered = NothingDiscovered
  /\ validation_result = NewResult(0)
  /\ post_discovery_result = NewResult(0)
  /\ structural = NewResult(0)
  /\ io = [c \in Chains |-> NoIo]
  /\ exc = "none"
  /\ run = 1
  /\ d_url \in {URL_A, URL_B, URL_FTP, PyNone}
  /\ d_pc = "params"
  /\ d_staking = NoResponse
  /\ d_validators = NoResponse
  /\ d_out = NothingDiscovered
  /\ EmbedOff
  /\ ConsensusOff

\* Steps 1 and 2: the staking-params request ends; derive_token_symbol
\* raises out of the call for a truthy bond_denom that is no str.
DiscoverStakingAnswer ==
  /\ d_pc = "params"
  /\ \E resp \in StakingResponses :
       /\ CanAnswer(d_url, resp)
       /\ d_staking' = resp
       /\ IF DeriveRaises(fetch_base_denom(resp))
          THEN /\ d_pc' = "raised"
               /\ UNCHANGED d_out
          ELSE /\ d_out' = DiscoverDenom(d_out, resp)
               /\ d_pc' = "validators"
  /\ UNCHANGED <<d_url, d_validators>>
  /\ UNCHANGED <<pvars, evars, kvars>>

\* Step 3 and the return.
DiscoverValidatorsAnswer ==
  /\ d_pc = "validators"
  /\ \E resp \in DiscoveryValidatorResponses :
       /\ CanAnswer(d_url, resp)
       /\ d_validators' = resp
       /\ d_out' = DiscoverPrefixes(d_out, resp)
  /\ d_pc' = "returned"
  /\ UNCHANGED <<d_url, d_staking>>
  /\ UNCHANGED <<pvars, evars, kvars>>

NextDiscovery ==
  \/ DiscoverStakingAnswer
  \/ DiscoverValidatorsAnswer

SpecDiscovery == InitDiscovery /\ [][NextDiscovery]_vars

(***************************************************************************)
(* config_validator.py: create_validation_embed on its own.  Texts are     *)
(* sequences of characters; the emoji of titles and field names are left   *)
(* out.                                                                    *)
(***************************************************************************)
\* `[:10]`
MaxShown == 10

\* `len(text) > 1024`
FieldLimit == 1024

\* `text[:1020]`
KeptChars == 1020

Digits == <<"0","1","2","3","4","5","6","7","8","9">>

\* str() of an int >= 0, as the f-strings format it.
RECURSIVE IntToStr(_)
IntToStr(k) ==
  IF k < 10 THEN <<Digits[k + 1]>>
  ELSE IntToStr(k \div 10) \o <<Digits[(k % 10) + 1]>>

\* sep.join(list)
RECURSIVE Join(_, _)
Join(sep, list) ==
  IF list = <<>> THEN <<>>
  ELSE IF Len(list) = 1 THEN list[1]
  ELSE list[1] \o sep \o Join(sep, Tail(list))

NEWLINE == <<"\n">>

ELLIPSIS == <<".",".",".">>

ERRORS_WORD == <<"e","r","r","o","r","s">>

WARNINGS_WORD == <<"w","a","r","n","i","n","g","s">>

\* A listing that shows every entry.
ShowAll(list) == list

\* `list[:10]`
FirstShown(list) ==
  SubSeq(list, 1, IF Len(list) < MaxShown THEN Len(list) ELSE MaxShown)

\* f"\n... and {len(list) - 10} more {what}"
MoreSuffix(count, what) ==
  NEWLINE \o ELLIPSIS \o <<" ","a","n","d"," ">> \o IntToStr(count - MaxShown)
    \o <<" ","m","o","r","e"," ">> \o what

\* A cut that keeps as many characters as the limit allows.
ClipAtLimit(text) ==
  IF Len(text) > FieldLimit THEN SubSeq(text, 1, FieldLimit) \o ELLIPSIS ELSE text

\* `if len(text) > 1024: text = text[:1020] + "..."`
Clip(text) ==
  IF Len(text) > FieldLimit THEN SubSeq(text, 1, KeptChars) \o ELLIPSIS ELSE text

\* The backquote put around a chain name, written as an apostrophe (a TLA+
\* string cannot hold a backquote).
BACKQUOTE == <<"'">>

\* ", ".join(f"`{c}`" for c in result.success)
ChainsText(success) ==
  Join(<<",", " ">>, [k \in 1..Len(success) |-> BACKQUOTE \o success[k] \o BACKQUOTE])

\* "\n".join(list[:10]), with the suffix when the list has more than 10.
LimitedText(list, what) ==
  IF Len(list) > MaxShown
  THEN Join(NEWLINE, FirstShown(list)) \o MoreSuffix(Len(list), what)
  ELSE Join(NEWLINE, FirstShown(list))

\* The title the embed gets.
EmbedTitle(result) ==
  IF is_valid(result)
  THEN (IF has_warnings(result) THEN "validated_with_warnings" ELSE "validated")
  ELSE "failed"

\* The value of the Summary field.
SummaryText(result) ==
  Join(NEWLINE,
       << <<"V","a","l","i","d",":"," ","*","*">>
            \o IntToStr(result.valid_chains) \o <<"*","*">>,
          <<"E","r","r","o","r","s",":"," ","*","*">>
            \o IntToStr(Len(result.errors)) \o <<"*","*">>,
          <<"W","a","r","n","i","n","g","s",":"," ","*","*">>
            \o IntToStr(Len(result.warnings)) \o <<"*","*">> >>)

Field(name, value) == [name |-> name, value |-> value]

\* The embed: its title and its fields in the order they are added.
create_validation_embed(result) ==
  [title |-> EmbedTitle(result),
   fields |->
     <<Field("Summary", SummaryText(result))>>
     \o (IF result.success # <<>>
         THEN <<Field("Valid Chains", Clip(ChainsText(result.success)))>>
         ELSE <<>>)
     \o (IF result.errors # <<>>
         THEN <<Field("Errors", Clip(LimitedText(result.errors, ERRORS_WORD)))>>
         ELSE <<>>)
     \o (IF result.warnings # <<>>
         THEN <<Field("Warnings", Clip(LimitedText(result.warnings, WARNINGS_WORD)))>>
         ELSE <<>>)]

\* Longest list handed to the embed.
MaxEntries == 12

\* Lengths of the lists: none, one, a few, and around the 10 that are shown.
EntryCounts == {0, 1, 5, 9, 10, 11, MaxEntries}

\* Lengths of the entries of one result: short ones; names of which 9 fill
\* a field to the limit; lines of which 5 fill it, and one character more.
EntryLens == {4, 110, 204, 205}

\* Entry k of a list: a letter, the number, and padding up to len.
Entry(letter, k, len) ==
  <<letter>> \o IntToStr(k) \o [i \in 1..(len - 1 - Len(IntToStr(k))) |-> "x"]

Entries(letter, count, len) == [k \in 1..count |-> Entry(letter, k, len)]

InitEmbed ==
  /\ config_file = [c \in Chains |-> Baseline]
  /\ supported_chains = config_file
  /\ cache = [c \in Chains |-> NoRow]
  /\ pc = "off"
  /\ idx = 1
  /\ discovered = NothingDiscovered
  /\ validation_result = NewResult(0)
  /\ post_discovery_result = NewResult(0)
  /\ structural = NewResult(0)
  /\ io = [c \in Chains |-> NoIo]
  /\ exc = "none"
  /\ run = 1
  /\ DiscoveryOff
  /\ ConsensusOff
  /\ \E ne \in EntryCounts, nw \in EntryCounts, ns \in EntryCounts,
        len \in EntryLens :
       e_result = [errors |-> Entries("e", ne, len),
                   warnings |-> Entries("w", nw, len),
                   success |-> Entries("c", ns, len),
                   total_chains |-> ns + ne,
                   valid_chains |-> ns]
  /\ e_pc = "called"
  /\ e_embed = [title |-> "none", fields |-> <<>>]

\* The call runs and returns the embed.
CreateValidationEmbed ==
  /\ e_pc = "called"
  /\ e_embed' = create_validation_embed(e_result)
  /\ e_pc' = "returned"
  /\ UNCHANGED e_result
  /\ UNCHANGED <<pvars, dvars, kvars>>

NextEmbed == CreateValidationEmbed

SpecEmbed == InitEmbed /\ [][NextEmbed]_vars

(***************************************************************************)
(* chain_discovery.py: extract_consensus_prefix on its own.                *)
(***************************************************************************)
\* Most pieces an operator prefix is put together from.
MaxSegments == 3

\* The pieces: "valoper", parts of it, "valcons" and other letters.
Segments ==
  { VALOPER, VALCONS, <<"v","a","l">>, <<"o","p","e","r">>,
    <<"c","o","s","m","o","s">>, <<"x">> }

RECURSIVE Flatten(_)
Flatten(pieces) ==
  IF pieces = <<>> THEN <<>> ELSE Head(pieces) \o Flatten(Tail(pieces))

\* The arguments of the call: None, "", and the prefixes of up to
\* MaxSegments pieces.
PrefixInputs ==
  {PyNone}
  \cup { PyStr(Flatten(pieces)) :
           pieces \in UNION { [1..n -> Segments] : n \in 0..MaxSegments } }

InitConsensus ==
  /\ config_file = [c \in Chains |-> Baseline]
  /\ supported_chains = config_file
  /\ cache = [c \in Chains |-> NoRow]
  /\ pc = "off"
  /\ idx = 1
  /\ discovered = NothingDiscovered
  /\ validation_result = NewResult(0)
  /\ post_discovery_result = NewResult(0)
  /\ structural = NewResult(0)
  /\ io = [c \in Chains |-> NoIo]
  /\ exc = "none"
  /\ run = 1
  /\ DiscoveryOff
  /\ EmbedOff
  /\ k_prefix \in PrefixInputs
  /\ k_pc = "called"
  /\ k_out = PyNone

\* The call runs and returns.
ExtractConsensusPrefix ==
  /\ k_pc = "called"
  /\ k_out' = extract_consensus_prefix(k_prefix)
  /\ k_pc' = "returned"
  /\ UNCHANGED k_prefix
  /\ UNCHANGED <<pvars, dvars, evars>>

NextConsensus == ExtractConsensusPrefix

SpecConsensus == InitConsensus /\ [][NextConsensus]_vars

(***************************************************************************)
(* Properties of the resolution loop.                                      *)
(***************************************************************************)
\* The place of a chain in the configuration map.
Pos(c) == CHOOSE k \in 1..Len(ChainOrder) : ChainOrder[k] = c

\* The loop of enrich_config_with_discovery has left chain c behind.
Finished(c) ==
  \/ pc \in {"post", "done"}
  \/ pc = "enrich" /\ idx > Pos(c)

\* The loop went past the `continue` for chain c: it looked the cache up.
LookedUp(c) == io[c].reads > 0

\* C1: manual always wins.  A discoverable field that the configuration
\* file gives a non-null value keeps exactly that value in
\* supported_chains, at every point of the run, whatever the cache row and
\* the discovery hold.
C1_ManualAlwaysWins ==
  \A c \in Chains : \A p \in ParamSet :
    ~IsMissing(config_file[c][p]) => supported_chains[c][p] = config_file[c][p]

\* C1 happens: a chain with a manual base_denom and other fields missing
\* was resolved from a cache row or a discovery holding another base_denom.
C1_Witness ==
  \E c \in Chains :
    /\ Finished(c) /\ LookedUp(c)
    /\ pc = "enrich" /\ idx = Pos(c) + 1
    /\ config_file[c].base_denom = UATOM
    /\ Truthy(discovered.base_denom)
    /\ discovered.base_denom # UATOM
    /\ supported_chains[c].base_denom = UATOM
    /\ supported_chains[c].valoper_prefix = discovered.valoper_prefix
    /\ Truthy(discovered.valoper_prefix)

\* The values only rows left by an earlier start hold.
OldCacheValues == {CACHE_VALOPER, CACHE_VALCONS, CACHE_DENOM, CACHE_SYMBOL}

\* The loop is about to run its body for chain c, which lacks a parameter.
AtLookup(c) ==
  /\ pc = "enrich"
  /\ idx <= Len(ChainOrder)
  /\ Current = c
  /\ MissingParams(supported_chains[c]) # <<>>

\* The row of chain c was stored for another endpoint than the chain's
\* rest_api_url (which the chain has, possibly null).
StaleRow(c) ==
  /\ cache[c] # NoRow
  /\ supported_chains[c].rest_api_url # NoKey
  /\ DictGet(cache[c].rest_api_url) # DictGet(supported_chains[c].rest_api_url)

\* C2: cache staleness by URL equality.  When the loop body runs for a
\* chain that lacks a parameter and whose row was stored for another
\* endpoint, the row is not reused: the step merges nothing and calls
\* discovery with the chain's current rest_api_url, issuing the first
\* request; and as long as no row was reused for a chain in this start, no
\* value of an old row is in its resolved configuration.
C2_StaleCacheRediscovers ==
  /\ [][\A c \in Chains :
          (AtLookup(c) /\ StaleRow(c)) =>
            /\ ~io'[c].hit
            /\ pc' = "await_params"
            /\ io'[c].reqs = 1
            /\ io'[c].url = supported_chains[c].rest_api_url
            /\ supported_chains' = supported_chains]_vars
  /\ [](\A c \in Chains : \A p \in ParamSet :
          ~io[c].hit => supported_chains[c][p] \notin OldCacheValues)

\* C2 happens: a chain whose row names https://b while the chain is at
\* http://a was read (the read worked), discovery was called for http://a
\* and is at its second request.
C2_Witness ==
  /\ pc = "await_validators"
  /\ ~io[Current].rfail
  /\ cache[Current].rest_api_url = URL_B
  /\ supported_chains[Current].rest_api_url = URL_A
  /\ io[Current].url = URL_A
  /\ io[Current].reqs = 2
  /\ Truthy(discovered.base_denom)

\* C3: idempotence on fully specified chains.  For a chain whose four
\* discoverable fields are all non-null in the configuration file, a start
\* reads no cache row, writes none, issues no request, and its
\* configuration stays the one loaded, key for key.
C3_FullySpecifiedUntouched ==
  \A c \in Chains :
    MissingParams(config_file[c]) = <<>> =>
      /\ io[c].reads = 0
      /\ io[c].writes = 0
      /\ io[c].reqs = 0
      /\ supported_chains[c] = config_file[c]

\* C3 happens: the loop body ran for a fully specified chain that has a
\* row in the cache, and the loop went on.
C3_Witness ==
  \E c \in Chains :
    /\ MissingParams(config_file[c]) = <<>>
    /\ io[c].resolved
    /\ Finished(c)
    /\ cache[c] # NoRow

\* The steps of setup_hook inside enrich_config_with_discovery.
ResolutionPhase == pc \in {"enrich", "await_params", "await_validators"}

\* C5: no fatal failure in the resolution loop.  No step of
\* enrich_config_with_discovery ends setup_hook with an exception, whatever
\* the configuration map (a chain without rest_api_url included), and once
\* the loop is over its body has run for every chain.
C5_NoFatalFailureInResolution ==
  /\ [][ResolutionPhase => pc' # "crashed"]_vars
  /\ [](pc \in {"post", "done"} => \A c \in Chains : io[c].resolved)

\* validate_all_chains has returned its result.
StructuralReturned ==
  pc \in {"enrich", "await_params", "await_validators", "post", "done"}

HasError(result, c) ==
  \E k \in 1..Len(result.errors) : result.errors[k].chain = c

InSuccess(result, c) ==
  \E k \in 1..Len(result.success) : result.success[k] = c

\* C6: the structural pass on missing or null required fields.  No step
\* of validate_all_chains raises, and in its result every chain whose
\* rest_api_url or decimals is absent or null has an error and is not in
\* the success list.
C6_StructuralPassCompletes ==
  /\ [][pc = "validate" => pc' # "crashed"]_vars
  /\ [](StructuralReturned =>
          \A c \in Chains :
            (IsMissing(config_file[c].rest_api_url) \/ IsMissing(config_file[c].decimals))
              => (HasError(structural, c) /\ ~InSuccess(structural, c)))

\* C7: the token symbol follows the manual base denomination.  Once
\* discovery has run for a chain whose configuration gives base_denom but
\* no token_symbol, the chain's token_symbol is derive_token_symbol of
\* that manual base_denom, whatever the staking-params fetch came to.
C7_SymbolFollowsManualDenom ==
  \A c \in Chains :
    ( /\ Finished(c) /\ io[c].reqs = 2
      /\ config_file[c].base_denom.t = "str"
      /\ IsMissing(config_file[c].token_symbol) )
    => supported_chains[c].token_symbol
         = PyStr(derive_token_symbol(config_file[c].base_denom.s))

\* C9: the ValidationResult invariant.  In every state, for the stored
\* result (structural, later merged) and for the completeness result:
\* valid_chains is the length of the success list, and is_valid holds
\* exactly when there is no error.
C9_ResultInvariant ==
  \A r \in {validation_result, post_discovery_result} :
    /\ r.valid_chains = Len(r.success)
    /\ is_valid(r) <=> (r.errors = <<>>)

\* C10: the merge of the two passes.  After setup_hook has merged, the
\* stored result's errors are the structural errors followed by the
\* completeness errors, its valid_chains is the completeness pass's, and
\* its warnings, success list and total_chains are the structural pass's.
C10_MergeOfPasses ==
  pc = "done" =>
    /\ validation_result.errors = structural.errors \o post_discovery_result.errors
    /\ Len(validation_result.errors)
         = Len(structural.errors) + Len(post_discovery_result.errors)
    /\ validation_result.valid_chains = post_discovery_result.valid_chains
    /\ validation_result.warnings = structural.warnings
    /\ validation_result.success = structural.success
    /\ validation_result.total_chains = structural.total_chains

\* C10 happens: both passes found errors, and their counts of valid chains
\* differ and are not zero.
C10_Witness ==
  /\ pc = "done"
  /\ structural.errors # <<>>
  /\ post_discovery_result.errors # <<>>
  /\ post_discovery_result.valid_chains > 0
  /\ structural.valid_chains > 0
  /\ structural.warnings # <<>>

\* The errors a result holds for chain c.
ErrorsOf(result, c) ==
  { k \in 1..Len(result.errors) : result.errors[k].chain = c }

HasWarning(result, c) ==
  \E k \in 1..Len(result.warnings) : result.warnings[k].chain = c

\* The one defect of the configuration is a rest_api_url that is a string
\* with another scheme, or a decimals that is an integer outside 0..18, or a
\* decimals that is a string.
SingleDefect(cfg) ==
  LET urlOk == cfg.rest_api_url.t = "str" /\ IsHttpUrl(cfg.rest_api_url)
      badUrl == cfg.rest_api_url.t = "str" /\ ~IsHttpUrl(cfg.rest_api_url)
      decimalsOk == cfg.decimals.t = "int" /\ cfg.decimals.n \in 0..18
      outside == cfg.decimals.t = "int" /\ cfg.decimals.n \notin 0..18
      noInt == cfg.decimals.t = "str"
  IN \/ badUrl /\ decimalsOk
     \/ urlOk /\ outside
     \/ urlOk /\ noInt

\* C13: structural pass error accounting.  In the result validate_all_chains
\* returned, a chain whose only defect is a rest_api_url with another scheme
\* than http(s), a decimals outside 0..18 or a decimals that is no integer
\* has exactly one error, and a chain is in the success list exactly when it
\* has no error, whether or not it has a warning.
C13_StructuralErrorAccounting ==
  StructuralReturned =>
    \A c \in Chains :
      /\ SingleDefect(config_file[c]) => Cardinality(ErrorsOf(structural, c)) = 1
      /\ InSuccess(structural, c) <=> (ErrorsOf(structural, c) = {})

\* C13 happens: the pass returned for a chain at ftp://, with one error,
\* beside a chain that has a warning and is a success.
C13_Witness ==
  /\ StructuralReturned
  /\ \E c \in Chains :
       /\ config_file[c].rest_api_url = URL_FTP
       /\ Cardinality(ErrorsOf(structural, c)) = 1
       /\ ~InSuccess(structural, c)
  /\ \E c \in Chains :
       /\ HasWarning(structural, c)
       /\ InSuccess(structural, c)

\* The discoverable fields the resolved configuration of c lacks.
StillMissing(c) == { p \in ParamSet : IsMissing(supported_chains[c][p]) }

\* The fields a message names.
Named(message) == { message.params[k] : k \in 1..Len(message.params) }

\* C14: the completeness pass.  In the result validate_post_discovery
\* returned, a chain is in the success list exactly when none of the four
\* discoverable fields is missing or null in its resolved configuration;
\* any other chain has exactly one error, which names exactly the fields
\* that are missing or null; and the successes and the chains with an error
\* add up to total_chains.
C14_CompletenessPass ==
  pc = "done" =>
    /\ \A c \in Chains :
         /\ InSuccess(post_discovery_result, c) <=> (StillMissing(c) = {})
         /\ InSuccess(post_discovery_result, c)
              => ErrorsOf(post_discovery_result, c) = {}
         /\ ~InSuccess(post_discovery_result, c) =>
              /\ Cardinality(ErrorsOf(post_discovery_result, c)) = 1
              /\ \A k \in ErrorsOf(post_discovery_result, c) :
                   /\ Named(post_discovery_result.errors[k]) = StillMissing(c)
                   /\ Len(post_discovery_result.errors[k].params)
                        = Cardinality(StillMissing(c))
    /\ Len(post_discovery_result.success)
         + Cardinality({ c \in Chains : ErrorsOf(post_discovery_result, c) # {} })
         = post_discovery_result.total_chains

\* C14 happens: one chain is complete, the other lacks base_denom and
\* token_symbol after a discovery that found the prefixes only.
C14_Witness ==
  /\ pc = "done"
  /\ \E c \in Chains : InSuccess(post_discovery_result, c)
  /\ \E c \in Chains :
       /\ StillMissing(c) = {"base_denom", "token_symbol"}
       /\ io[c].reqs = 2
       /\ Cardinality(ErrorsOf(post_discovery_result, c)) = 1

\* Some field of a discovery outcome is present.
SomePresent(disc) == \E p \in ParamSet : disc[p] # PyNone

\* The row a write of the outcome disc for endpoint url leaves at time now.
RowOf(disc, url, now) ==
  Row(disc.valoper_prefix, disc.valcons_prefix, disc.base_denom,
      disc.token_symbol, now, url)

\* C15: cache record lifecycle.  Step by step: a row goes away only by
\* invalidate_chain_cache on the running bot; a row is created or changed
\* only by the step that ends the discovery invoked for that chain, only
\* when the outcome has a present field, and then it is the outcome's row
\* for the chain's rest_api_url; a discovery that ends with all four fields
\* absent leaves the whole table as it was; and a row stored for the
\* chain's rest_api_url is reused when it is read, however old it is.
C15_CacheLifecycle ==
  [][\A c \in Chains :
       /\ (cache[c] # NoRow /\ cache'[c] = NoRow) => (pc = "done" /\ pc' = "done")
       /\ (cache'[c] # cache[c] /\ cache'[c] # NoRow) =>
            /\ pc = "await_validators" /\ Current = c
            /\ io[c].reqs = 2
            /\ SomePresent(discovered')
            /\ cache'[c] = RowOf(discovered', supported_chains[c].rest_api_url, run)
       /\ (pc = "await_validators" /\ pc' = "enrich" /\ ~SomePresent(discovered'))
            => cache' = cache
       /\ ( /\ AtLookup(c) /\ cache[c] # NoRow /\ ~io'[c].rfail
            /\ cache[c].rest_api_url = supported_chains[c].rest_api_url )
            => io'[c].hit]_vars

\* C15 happens: the discovery invoked for a chain whose row names another
\* endpoint came to nothing, and the row is still there.
C15_Witness ==
  \E c \in Chains :
    /\ pc = "enrich" /\ idx = Pos(c) + 1
    /\ io[c].reqs = 2
    /\ discovered = NothingDiscovered
    /\ cache[c].rest_api_url = URL_B
    /\ supported_chains[c].rest_api_url = URL_A

\* The configuration of c is the loaded one with every field it lacked
\* taken from disc where disc has a truthy value for it.
ResolvedFrom(c, disc) ==
  /\ \A p \in ParamSet :
       supported_chains[c][p] =
         IF IsMissing(config_file[c][p]) /\ Truthy(disc[p])
         THEN disc[p] ELSE config_file[c][p]
  /\ supported_chains[c].rest_api_url = config_file[c].rest_api_url
  /\ supported_chains[c].decimals = config_file[c].decimals

\* The loop has just ended its body for chain c.
JustFinished(c) == pc = "enrich" /\ idx = Pos(c) + 1

\* C16: cache I/O failures are swallowed.  A chain whose cache read
\* failed is treated as one without a row: no row is reused for it and
\* (the chain having a rest_api_url key) discovery is invoked with that
\* URL.  A chain whose cache write failed leaves no exception behind: the
\* loop goes on to the next chain, the table is as it was, and the chain's
\* configuration is the one the outcome resolves to, as after a write that
\* worked.
C16_CacheFailuresSwallowed ==
  \A c \in Chains :
    /\ io[c].rfail =>
         /\ ~io[c].hit
         /\ config_file[c].rest_api_url # NoKey =>
              (io[c].reqs >= 1 /\ io[c].url = config_file[c].rest_api_url)
    /\ io[c].wfail =>
         /\ io[c].writes = 1
         /\ pc = "crashed" => Current # c
         /\ JustFinished(c) => (exc = "none" /\ ResolvedFrom(c, discovered))
         /\ ResolutionPhase => idx > Pos(c)
    /\ (JustFinished(c) /\ io[c].writes = 1) => ResolvedFrom(c, discovered)

\* C16 happens: the run is over; the write for the first chain failed, and
\* the read for the second chain failed although a row for its endpoint is
\* in the table, and discovery ran for it.
C16_Witness ==
  /\ pc = "done"
  /\ io[ChainOrder[1]].wfail
  /\ io[ChainOrder[2]].rfail
  /\ io[ChainOrder[2]].reqs = 2
  /\ cache[ChainOrder[2]].rest_api_url = URL_A
  /\ cache[ChainOrder[2]].discovered_at = 0
  /\ config_file[ChainOrder[2]].rest_api_url = URL_A

\* A row was reused for chain c: nothing was requested or written for it,
\* and when the loop has just ended its body for c the row is one stored for
\* the chain's rest_api_url, its four fields are the discovered set, null
\* ones included, and the chain's configuration is resolved from them.
HitSkipsNetwork(c) ==
  io[c].hit =>
    /\ io[c].reqs = 0
    /\ io[c].writes = 0
    /\ io[c].reads = 1
    /\ JustFinished(c) =>
         /\ cache[c] # NoRow
         /\ cache[c].rest_api_url = config_file[c].rest_api_url
         /\ \A p \in ParamSet : discovered[p] = cache[c][p]
         /\ ResolvedFrom(c, discovered)

\* Discovery is running for chain c in this start.
DiscoveryInvoked(c) ==
  pc \in {"await_params", "await_validators"} /\ Current = c

\* The row of chain c was written by the discovery of an earlier start,
\* which found at least one field, and has not been invalidated since.
StoredByEarlierStart(c) ==
  cache[c] # NoRow /\ cache[c].discovered_at \in 1..(run - 1)

\* C17 as stated: a cache hit skips the network, and once a start's
\* discovery has found a field for a chain, no later start invokes
\* discovery for it (rest_api_url unchanged, no invalidation).
C17_HitSkipsAndDiscoveryStops ==
  \A c \in Chains :
    /\ HitSkipsNetwork(c)
    /\ StoredByEarlierStart(c) => ~DiscoveryInvoked(c)

\* C17 as amended: a cache hit skips the network, and once a start's
\* discovery has found a field for a chain and the row was written, a
\* later start invokes discovery for it only when its read of the cache
\* fails.
C17_HitSkipsAndDiscoveryStopsWhileCacheWorks ==
  \A c \in Chains :
    /\ HitSkipsNetwork(c)
    /\ (StoredByEarlierStart(c) /\ ~io[c].rfail) => ~DiscoveryInvoked(c)

\* C17 happens: the second start reused the row the first start wrote,
\* which has no base_denom although the chain lacks one.
C17_Witness ==
  \E c \in Chains :
    /\ run = 2
    /\ JustFinished(c)
    /\ io[c].hit
    /\ cache[c].discovered_at = 1
    /\ cache[c].base_denom = PyNone
    /\ IsMissing(config_file[c].base_denom)
    /\ Truthy(supported_chains[c].valoper_prefix)

\* setup_hook ended with an exception while discovery was running for
\* chain c.
EndedInDiscoveryOf(c) == pc = "crashed" /\ Current = c /\ io[c].reqs >= 1

\* C18: chain independence.  What a start does for a chain X does not
\* depend on the REST responses, the discovery failures or the cache row of
\* another chain Y: whatever the discovery for Y came to, the loop body has
\* run for X (its cache was looked up if it lacks a field) by the time
\* setup_hook is over; and the step that ends the discovery for Y, with its
\* cache write, leaves the row of X as it was.
C18_ChainIndependence ==
  /\ [](\A X \in Chains : \A Y \in Chains \ {X} :
          EndedInDiscoveryOf(Y) =>
            /\ io[X].resolved
            /\ MissingParams(config_file[X]) # <<>> => io[X].reads = 1)
  /\ [][\A X \in Chains : \A Y \in Chains \ {X} :
          (pc = "await_validators" /\ Current = Y) => cache'[X] = cache[X]]_vars

\* Something was read from the cache or requested over the network in
\* this start.
SomeIo == \E c \in Chains : io[c].reads > 0 \/ io[c].reqs > 0

\* The requests of chain c that have been issued and have not ended.
Outstanding(c) ==
  IF pc \in {"await_params", "await_validators"} /\ ChainOrder[idx] = c
  THEN 1 ELSE 0

\* C21: sequential ordering of the pipeline.  Nothing is read from the
\* cache or requested before validate_all_chains has returned a result that
\* covers every chain; validate_post_discovery starts only when the loop
\* body has run for every chain; the loop body runs for the chains in the
\* order of the configuration map, and a chain is looked up or requested
\* for only when every chain before it is done with; at most one request is
\* outstanding; and the validators request of a chain is issued only when
\* its staking-params request has ended.
C21_SequentialPipeline ==
  /\ SomeIo =>
       /\ structural.total_chains = Len(ChainOrder)
       /\ \A c \in Chains : InSuccess(structural, c) \/ HasError(structural, c)
       /\ pc \notin {"start", "validate"}
  /\ (pc \in {"post", "done"} \/ post_discovery_result # NewResult(0))
       => \A c \in Chains : io[c].resolved
  /\ \A c \in Chains : \A before \in Chains :
       (Pos(before) < Pos(c) /\ (io[c].resolved \/ io[c].reads > 0 \/ io[c].reqs > 0))
         => /\ io[before].resolved
            /\ Outstanding(before) = 0
            /\ io[before].reqs \in {0, 2}
  /\ Outstanding(ChainOrder[1]) + Outstanding(ChainOrder[2]) <= 1
  /\ \A c \in Chains :
       /\ io[c].reqs \in 0..2
       /\ io[c].reqs = 1 =>
            \/ pc = "await_params" /\ ChainOrder[idx] = c
            \/ pc = "crashed" /\ ChainOrder[idx] = c /\ exc = "AttributeError"
       /\ (pc = "await_validators" /\ ChainOrder[idx] = c) => io[c].reqs = 2
       /\ (pc = "await_params" /\ ChainOrder[idx] = c) =>
            (io[c].reqs = 1 /\ discovered = NothingDiscovered)

\* C21 happens: the validators request of the second chain is outstanding
\* after both requests of the first chain have ended.
C21_Witness ==
  /\ pc = "await_validators"
  /\ idx = 2
  /\ io[ChainOrder[1]].reqs = 2
  /\ io[ChainOrder[2]].reqs = 2
  /\ Truthy(discovered.base_denom)
  /\ structural.total_chains = Len(ChainOrder)

\* The row of chain c was written by a start of this behaviour.
WrittenByAStart(c) == cache[c] # NoRow /\ cache[c].discovered_at >= 1

\* C22: the rows resolution writes.  Every row a start has written has a
\* discoverable field that is not null and names the rest_api_url of the
\* chain's configuration, so that it is usable for that configuration; and
\* when the loop has just ended its body for a chain with a write that
\* worked, the row is the outcome's row as a whole: a field the outcome
\* lacks is null in it, whatever an older row held.
C22_WrittenRows ==
  \A c \in Chains :
    /\ WrittenByAStart(c) =>
         /\ \E p \in ParamSet : cache[c][p] # PyNone
         /\ cache[c].rest_api_url = config_file[c].rest_api_url
         /\ cache[c].rest_api_url.t = "str"
         /\ cache[c].discovered_at <= run
    /\ (JustFinished(c) /\ io[c].writes = 1 /\ ~io[c].wfail) =>
         /\ WrittenByAStart(c)
         /\ cache[c].discovered_at = run
         /\ \A p \in ParamSet : cache[c][p] = discovered[p]

\* C22 happens: a start has just written the row of a chain from an
\* outcome with the prefixes and no base_denom.
C22_Witness ==
  \E c \in Chains :
    /\ JustFinished(c)
    /\ io[c].writes = 1 /\ ~io[c].wfail
    /\ cache[c].discovered_at = run
    /\ cache[c].base_denom = PyNone
    /\ cache[c].token_symbol = PyNone
    /\ cache[c].valoper_prefix # PyNone
    /\ cache[c].rest_api_url = URL_A

(***************************************************************************)
(* Properties of discover_chain_params.                                    *)
(***************************************************************************)
\* C4: discover never raises.  Whatever the two REST calls come to, the
\* call does not end with an exception, and when it returns, a failed
\* staking-params fetch has left base_denom and token_symbol absent and a
\* failed validators fetch has left both prefixes absent.
C4_DiscoverNeverRaises ==
  /\ d_pc # "raised"
  /\ d_pc = "returned" =>
       /\ d_staking.kind \in FailureKinds =>
            (d_out.base_denom = PyNone /\ d_out.token_symbol = PyNone)
       /\ d_validators.kind \in FailureKinds =>
            (d_out.valoper_prefix = PyNone /\ d_out.valcons_prefix = PyNone)

\* The call returned after a validators response whose first record has an
\* operator address with a bech32 prefix that does not contain "valoper".
PlainPrefixReturned ==
  /\ d_pc = "returned"
  /\ d_validators.kind = "json"
  /\ d_validators.count = 1
  /\ LET prefix == extract_bech32_prefix(DictGet(d_validators.addr))
     IN prefix.t = "str" /\ ~Contains(prefix.s, VALOPER)

\* C8 as stated: in that case valcons_prefix is absent while
\* valoper_prefix is present with the extracted value.
C8_PrefixAsymmetry ==
  PlainPrefixReturned =>
    /\ d_out.valcons_prefix = PyNone
    /\ d_out.valoper_prefix = extract_bech32_prefix(DictGet(d_validators.addr))

\* C8 as amended: in that case both valcons_prefix and valoper_prefix are
\* absent from the outcome.
C8_PlainPrefixDropsBoth ==
  PlainPrefixReturned =>
    /\ d_out.valcons_prefix = PyNone
    /\ d_out.valoper_prefix = PyNone

\* C8 happens: operator address "plainprefix1abc", with a denomination
\* discovered in the same call.
C8_Witness ==
  /\ PlainPrefixReturned
  /\ d_validators.addr = PLAIN_ADDR
  /\ d_out.base_denom = UOSMO

\* C20: the shape of every discovery outcome.  When the call returns, the
\* two prefixes are both present or both absent and token_symbol is present
\* exactly when base_denom is; after a failed staking-params fetch the
\* validators request was still made and an operator address
\* "cosmosvaloper1abc" gives both prefixes; and after a failed validators
\* fetch the base_denom "uosmo" of the staking-params response and its
\* token_symbol "OSMO" are in the outcome.
C20_OutcomeShape ==
  d_pc = "returned" =>
    /\ (d_out.valoper_prefix = PyNone) <=> (d_out.valcons_prefix = PyNone)
    /\ (d_out.token_symbol = PyNone) <=> (d_out.base_denom = PyNone)
    /\ d_staking.kind \in FailureKinds =>
         /\ d_validators # NoResponse
         /\ (d_validators.kind = "json" /\ d_validators.addr = COSMOS_ADDR) =>
              /\ d_out.valoper_prefix
                   = PyStr(<<"c","o","s","m","o","s","v","a","l","o","p","e","r">>)
              /\ d_out.valcons_prefix
                   = PyStr(<<"c","o","s","m","o","s","v","a","l","c","o","n","s">>)
    /\ (d_validators.kind \in FailureKinds /\ d_staking.bond = UOSMO) =>
         /\ d_out.base_denom = UOSMO
         /\ d_out.token_symbol = PyStr(<<"O","S","M","O">>)

\* C20 happens: the staking-params fetch failed and the validators fetch
\* gave both prefixes.
C20_Witness ==
  /\ d_pc = "returned"
  /\ d_staking.kind \in FailureKinds
  /\ d_out.base_denom = PyNone
  /\ d_validators.addr = COSMOS_ADDR
  /\ d_out.valcons_prefix # PyNone

(***************************************************************************)
(* Properties of extract_consensus_prefix.                                 *)
(***************************************************************************)
\* Where "valoper" starts in str.
Occurrences(str) ==
  { i \in 1..(Len(str) - Len(VALOPER) + 1) :
      SubSeq(str, i, i + Len(VALOPER) - 1) = VALOPER }

\* str with "valcons" written over the occurrences of "valoper" that start
\* at the places in at, and every other character as it is.
WrittenOver(str, at) ==
  [i \in 1..Len(str) |->
     IF \E j \in at : i \in j..(j + Len(VALOPER) - 1)
     THEN VALCONS[i - (CHOOSE j \in at : i \in j..(j + Len(VALOPER) - 1)) + 1]
     ELSE str[i]]

\* The call returned for a prefix that contains "valoper".
ReturnedForOperatorPrefix ==
  k_pc = "returned" /\ k_prefix.t = "str" /\ Occurrences(k_prefix.s) # {}

\* The call returned for None, "" or a prefix without "valoper".
ReturnedForOtherPrefix ==
  k_pc = "returned" /\ (k_prefix.t # "str" \/ Occurrences(k_prefix.s) = {})

\* C19 as stated: the result is the prefix with its first "valoper"
\* replaced by "valcons" and every other character, a later "valoper"
\* included, unchanged; it is absent for a prefix without "valoper", for ""
\* and for None.
C19_FirstOccurrenceReplaced ==
  /\ ReturnedForOperatorPrefix =>
       k_out = PyStr(WrittenOver(k_prefix.s,
                                 { CHOOSE i \in Occurrences(k_prefix.s) :
                                     \A j \in Occurrences(k_prefix.s) : i <= j }))
  /\ ReturnedForOtherPrefix => k_out = PyNone

\* C19 as amended: the result is the prefix with every "valoper" replaced
\* by "valcons" and every other character unchanged; it is absent for a
\* prefix without "valoper", for "" and for None.
C19_EveryOccurrenceReplaced ==
  /\ ReturnedForOperatorPrefix =>
       k_out = PyStr(WrittenOver(k_prefix.s, Occurrences(k_prefix.s)))
  /\ ReturnedForOtherPrefix => k_out = PyNone

\* C19 happens: "cosmosvalopervaloper" came back as "cosmosvalconsvalcons".
C19_Witness ==
  /\ k_pc = "returned"
  /\ k_prefix = PyStr(<<"c","o","s","m","o","s">> \o VALOPER \o VALOPER)
  /\ k_out = PyStr(<<"c","o","s","m","o","s">> \o VALCONS \o VALCONS)

(***************************************************************************)
(* Properties of create_validation_embed.                                  *)
(***************************************************************************)
HasField(embed, name) ==
  \E k \in 1..Len(embed.fields) : embed.fields[k].name = name

FieldValue(embed, name) ==
  embed.fields[CHOOSE k \in 1..Len(embed.fields) : embed.fields[k].name = name].value

EndsWith(str, suffix) ==
  /\ Len(str) >= Len(suffix)
  /\ SubSeq(str, Len(str) - Len(suffix) + 1, Len(str)) = suffix

\* text.split(sep), for a separator that does not overlap itself.
Split(text, sep) ==
  LET at == { i \in 1..(Len(text) - Len(sep) + 1) :
                SubSeq(text, i, i + Len(sep) - 1) = sep }
      count == Cardinality(at)
      Nth(j) == CHOOSE p \in at : Cardinality({ q \in at : q < p }) = j - 1
      From(k) == IF k = 1 THEN 1 ELSE Nth(k - 1) + Len(sep)
      To(k) == IF k = count + 1 THEN Len(text) ELSE Nth(k) - 1
  IN [k \in 1..(count + 1) |-> SubSeq(text, From(k), To(k))]

\* The three display blocks: the field, the list it renders, what parts
\* the entries, and what is put around an entry.
Blocks ==
  { [field |-> "Valid Chains", list |-> "success", sep |-> <<",", " ">>,
     quote |-> BACKQUOTE],
    [field |-> "Errors", list |-> "errors", sep |-> NEWLINE, quote |-> <<>>],
    [field |-> "Warnings", list |-> "warnings", sep |-> NEWLINE, quote |-> <<>>] }

CountLimitedBlocks == { b \in Blocks : b.list \in {"errors", "warnings"} }

\* "and K more" is in the last 40 characters of the text.
AndMoreAtEnd(text, more) ==
  Contains(SubSeq(text, IF Len(text) > 40 THEN Len(text) - 39 ELSE 1, Len(text)),
           <<"a","n","d"," ">> \o IntToStr(more) \o <<" ","m","o","r","e">>)

\* The block shows at most the first 10 entries of its list, in order
\* (the last item of a text that was cut by length left aside), and when
\* the text was not cut by length: all entries of a list of up to 10, and
\* for a longer list 10 entries and then the "and N-10 more" suffix.
CountLimited(b) ==
  LET list == e_result[b.list]
      value == FieldValue(e_embed, b.field)
      items == Split(value, b.sep)
      cut == EndsWith(value, ELLIPSIS)
  IN list # <<>> =>
       /\ HasField(e_embed, b.field)
       /\ Len(items) <= MaxShown + 1
       /\ \A k \in 1..Len(items) :
            (k <= MaxShown /\ (k < Len(items) \/ ~cut))
              => items[k] = b.quote \o list[k] \o b.quote
       /\ (~cut /\ Len(list) <= MaxShown) => Len(items) = Len(list)
       /\ (~cut /\ Len(list) > MaxShown) =>
            /\ Len(items) = MaxShown + 1
            /\ AndMoreAtEnd(value, Len(list) - MaxShown)

\* The block shows every entry of its list, in order (the last item of a
\* text that was cut by length left aside).
AllShown(b) ==
  LET list == e_result[b.list]
      value == FieldValue(e_embed, b.field)
      items == Split(value, b.sep)
      cut == EndsWith(value, ELLIPSIS)
  IN list # <<>> =>
       /\ HasField(e_embed, b.field)
       /\ ~cut => Len(items) = Len(list)
       /\ \A k \in 1..Len(items) :
            (k < Len(items) \/ ~cut) => items[k] = b.quote \o list[k] \o b.quote

\* C11 as stated: entry-count truncation of the report.  Each of the three
\* blocks (valid chains, errors, warnings) shows at most 10 entries of its
\* list, and for a list of N > 10 entries ends with an "and N-10 more"
\* suffix.
C11_EveryBlockCountLimited ==
  e_pc = "returned" => \A b \in Blocks : CountLimited(b)

\* C11 as amended: the errors block and the warnings block show at most 10
\* entries and for N > 10 end with "and N-10 more errors" or "and N-10 more
\* warnings", as long as the text with the suffix is not cut by length; the
\* valid-chains block shows every name of the success list.
C11_ErrorsAndWarningsCountLimited ==
  e_pc = "returned" =>
    /\ \A b \in CountLimitedBlocks : CountLimited(b)
    /\ \A b \in Blocks \ CountLimitedBlocks : AllShown(b)

\* C11 happens: 11 short errors render as 10 lines and "... and 1 more
\* errors", and a success list of 11 names renders 11 names.
C11_Witness ==
  /\ e_pc = "returned"
  /\ Len(e_result.errors) = 11
  /\ Len(Split(FieldValue(e_embed, "Errors"), NEWLINE)) = 11
  /\ EndsWith(FieldValue(e_embed, "Errors"),
              NEWLINE \o ELLIPSIS \o <<" ","a","n","d"," ","1"," ","m","o","r","e"," ">>
                \o ERRORS_WORD)
  /\ Len(e_result.success) = 11
  /\ Len(Split(FieldValue(e_embed, "Valid Chains"), <<",", " ">>)) = 11

\* The text of a block before the cut by length.
Rendered(b) ==
  IF b.list = "success" THEN ChainsText(e_result.success)
  ELSE LimitedText(e_result[b.list],
                   IF b.list = "errors" THEN ERRORS_WORD ELSE WARNINGS_WORD)

\* C12: length truncation of the report.  Every block of the returned
\* embed is at most 1024 characters long; a block whose rendered text, the
\* "and N more" suffix included, is longer than 1024 characters is the
\* first 1020 characters of that text followed by "..."; a text of at most
\* 1024 characters is the block as it is.
C12_BlocksWithinFieldLimit ==
  e_pc = "returned" =>
    \A b \in Blocks :
      e_result[b.list] # <<>> =>
        LET value == FieldValue(e_embed, b.field)
        IN /\ Len(value) <= FieldLimit
           /\ Len(Rendered(b)) > FieldLimit =>
                /\ Len(value) = KeptChars + 3
                /\ SubSeq(value, 1, KeptChars) = SubSeq(Rendered(b), 1, KeptChars)
                /\ SubSeq(value, KeptChars + 1, KeptChars + 3) = ELLIPSIS
           /\ Len(Rendered(b)) <= FieldLimit => value = Rendered(b)

\* C12 happens: 11 errors whose text with the suffix is longer than 1024
\* characters were cut to 1023, beside 5 warnings whose text is exactly
\* 1024 characters long and was left as it is.
C12_Witness ==
  /\ e_pc = "returned"
  /\ Len(e_result.errors) = 11
  /\ Len(LimitedText(e_result.errors, ERRORS_WORD)) > FieldLimit
  /\ Len(FieldValue(e_embed, "Errors")) = KeptChars + 3
  /\ Len(e_result.warnings) = 5
  /\ Len(FieldValue(e_embed, "Warnings")) = FieldLimit
====
